---- MODULE Spec2Model ----
(***************************************************************************)
(* The deletion workflow controller of app/routes/wipe.tsx (WipeApp): the  *)
(* component state, the key-value store and file store it calls, and its   *)
(* handlers, one action per handler step between two awaited store calls.  *)
(***************************************************************************)
EXTENDS Integers, Sequences, FiniteSets, TLC

\* ------------------------------------------------------------------ bounds

\* Number of record ids (keys resume:1 .. resume:NumIds).
NumIds == 3
\* Entries of the initial store of Spec that are not a record with both paths.
MaxBad == 1

RecordIds == 1..NumIds

\* ------------------------------------------------------------- data model

\* null (resumeToDelete), and the id of a value that holds no record.
Null == 0

\* An empty path string: `if (resume.imagePath)` is false for it.
NoPath == <<>>

ImagePathOf(id) == <<id, "image">>
ResumePathOf(id) == <<id, "resume">>

\* Which of a record's two files a path is.
KindOf(path) == path[2]

\* The value string of a KVItem, by what loadResumes can tell of it:
\*   text "empty"     the string "" (a tombstone),
\*   text "blank"     white space only,
\*   text "malformed" a string JSON.parse rejects,
\*   text "json"      the JSON of a Resume with the id and the two paths.
\* The display fields (companyName, jobTitle, feedback) play no part in the
\* workflow and are left out.
RawValue(t) ==
    [text |-> t, id |-> Null, imagePath |-> NoPath, resumePath |-> NoPath]

JsonValue(id, ip, rp) ==
    [text |-> "json", id |-> id, imagePath |-> ip, resumePath |-> rp]

ValueKinds == {"full", "noImage", "noResume", "noPaths", "empty", "blank", "malformed"}

\* The value written under key resume:<id>, of each kind.
ValueOf(id, kind) ==
    CASE kind = "full"     -> JsonValue(id, ImagePathOf(id), ResumePathOf(id))
      [] kind = "noImage"  -> JsonValue(id, NoPath, ResumePathOf(id))
      [] kind = "noResume" -> JsonValue(id, ImagePathOf(id), NoPath)
      [] kind = "noPaths"  -> JsonValue(id, NoPath, NoPath)
      [] OTHER             -> RawValue(kind)

\* A KVItem {key, value}; key is the <id> of resume:<id>.
KVItem(id, kind) == [key |-> id, value |-> ValueOf(id, kind)]

\* What the map callback returns for an entry it skips.
NullItem == [null |-> TRUE]

\* A ResumeItem of the loaded list.
ResumeItem(v) == [id |-> v.id, imagePath |-> v.imagePath, resumePath |-> v.resumePath]

\* !item.value || item.value.trim() === ""
IsEmptyValue(v) == v.text = "empty" \/ v.text = "blank"

\* JSON.parse(item.value) returns (does not throw).
JsonParses(v) == v.text = "json"

\* Mutant: the catch around JSON.parse is missing its `return null`, the entry
\* is kept as a record without id.
ParseItemKeepsMalformed(item) ==
    IF IsEmptyValue(item.value) THEN NullItem ELSE ResumeItem(item.value)

\* The callback of resumeKVItems.map: a ResumeItem, or null for an empty
\* value and for a value JSON.parse throws on.
ParseItem(item) ==
    IF IsEmptyValue(item.value) THEN NullItem
    ELSE IF ~JsonParses(item.value) THEN NullItem
    ELSE ResumeItem(item.value)

\* resumeKVItems.map(...)
MapParse(items) == [i \in DOMAIN items |-> ParseItem(items[i])]

\* Mutant: the filtered list is built back to front.
FilterBooleanReversed(seq) ==
    LET kept == SelectSeq(seq, LAMBDA x : x # NullItem)
    IN  [i \in 1..Len(kept) |-> kept[Len(kept) + 1 - i]]

\* .filter(Boolean)
FilterBoolean(seq) == SelectSeq(seq, LAMBDA x : x # NullItem)

\* What loadResumes hands to setResumes when kv.list returned items.
ParsedResumes(items) ==
    IF Len(items) = 0 THEN <<>> ELSE FilterBoolean(MapParse(items))

\* ----------------------------------------------------------------- state

VARIABLES
    kvStore,                \* the key-value store: KVItems in kv.list order
    resumes,                \* useState<ResumeItem[]>
    selectedResumes,        \* useState<Set<string>>: ids in insertion order
    loadingResumes,
    deleting,
    showConfirmDialog,
    showBulkConfirmDialog,
    resumeToDelete,
    error,                  \* usePuterStore().error: "" while there is none
    pc,                     \* where the running handler is suspended
    op,                     \* the handler that runs or ran last
    capResumes,             \* `resumes` as the running handler's closure holds it
    capSelected,            \* `selectedResumes` as the closure holds it
    queue,                  \* ids the for-of loop of handleDeleteSelected has left
    resume,                 \* the record found by resumes.find
    fileDeletePromises,     \* paths whose fs.delete has not settled
    kvIssued,               \* ids whose kv.delete this run has issued
    kvFailed,               \* ids whose kv.delete this run saw rejected
    fsIssued,               \* paths whose fs.delete this run has issued
    flushed,                \* kv.flush of this run resolved
    listResult,             \* how the kv.list of this run's loadResumes ended
    fsFailed                \* the kinds of file ("image", "resume") this run warned of:
                            \* console.warn("Error deleting image file:" / "... resume file:")

ui == <<resumes, selectedResumes, loadingResumes, deleting,
        showConfirmDialog, showBulkConfirmDialog, resumeToDelete, error>>
locals == <<capResumes, capSelected, queue, resume, fileDeletePromises>>
log == <<kvIssued, kvFailed, fsIssued, fsFailed, listResult, flushed>>
vars == <<kvStore, ui, pc, op, locals, log>>

\* ------------------------------------------------------------ the store hook

\* The error of usePuterStore while nothing failed: `if (error)` is false.
NoError == ""

\* The error the store publishes when its kv.list fails.
ListFailureError == "kv.list failed"

\* The component returns the error view alone while the store has an error:
\* neither the list section nor a dialog is rendered.
MainViewRendered == error = NoError

\* ------------------------------------------------------------ initial state

\* The stores Spec starts from: keys in list order, at most MaxBad entries that
\* are not a record with both paths.
InitialStores ==
    UNION {
        { [i \in 1..n |-> KVItem(i, k[i])] :
            k \in { f \in [1..n -> ValueKinds] :
                      Cardinality({i \in 1..n : f[i] # "full"}) <= MaxBad } }
        : n \in 0..NumIds }

\* useState initial values; the mount effect has not run yet.
InitComponent ==
    /\ resumes = <<>>
    /\ selectedResumes = <<>>
    /\ loadingResumes = FALSE
    /\ deleting = FALSE
    /\ showConfirmDialog = FALSE
    /\ showBulkConfirmDialog = FALSE
    /\ resumeToDelete = Null
    /\ error = NoError
    /\ pc = "mount"
    /\ op = "none"
    /\ capResumes = <<>>
    /\ capSelected = <<>>
    /\ queue = <<>>
    /\ resume = NullItem
    /\ fileDeletePromises = {}
    /\ kvIssued = {}
    /\ kvFailed = {}
    /\ fsIssued = {}
    /\ fsFailed = {}
    /\ listResult = "none"
    /\ flushed = FALSE

Init ==
    /\ kvStore \in InitialStores
    /\ InitComponent

\* -------------------------------------------------------------- loadResumes

\* loadResumes up to its await of kv.list.
LoadResumesStart ==
    /\ loadingResumes' = TRUE
    /\ pc' = "kvList"

\* useEffect(() => { loadResumes(); }, [])
MountEffect ==
    /\ pc = "mount"
    /\ LoadResumesStart
    /\ op' = "load"
    /\ UNCHANGED <<kvStore, resumes, selectedResumes, deleting, showConfirmDialog,
                   showBulkConfirmDialog, resumeToDelete, locals, log, error>>

\* Mutant: the handlers have no finally block; after the reload in the catch
\* nothing resets deleting.
AfterReloadWithoutFinally == deleting' = deleting

\* The finally block of the handler that awaited loadResumes in its catch;
\* the mount effect has none.
AfterReload ==
    IF op = "load" THEN deleting' = deleting ELSE deleting' = FALSE

\* kv.list resolved: the rest of loadResumes, then of its caller.
KvListResolve ==
    /\ pc = "kvList"
    /\ resumes' = ParsedResumes(kvStore)
    /\ loadingResumes' = FALSE
    /\ AfterReload
    /\ pc' = "done"
    /\ listResult' = "resolved"
    /\ UNCHANGED <<kvStore, selectedResumes, showConfirmDialog, showBulkConfirmDialog,
                   resumeToDelete, op, locals, kvIssued, kvFailed, fsIssued, fsFailed, flushed, error>>

\* Mutant: the catch of loadResumes only logs; the list is left as it was.
KvListRejectKeepsList ==
    /\ pc = "kvList"
    /\ loadingResumes' = FALSE
    /\ AfterReload
    /\ pc' = "done"
    /\ listResult' = "rejected"
    /\ error' = ListFailureError
    /\ UNCHANGED <<kvStore, resumes, selectedResumes, showConfirmDialog,
                   showBulkConfirmDialog, resumeToDelete, op, locals, kvIssued,
                   kvFailed, fsIssued, fsFailed, flushed>>

\* kv.list rejected: the catch of loadResumes, then the rest of its caller.
KvListReject ==
    /\ pc = "kvList"
    /\ resumes' = <<>>
    /\ loadingResumes' = FALSE
    /\ AfterReload
    /\ pc' = "done"
    /\ listResult' = "rejected"
    /\ error' = ListFailureError
    /\ UNCHANGED <<kvStore, selectedResumes, showConfirmDialog, showBulkConfirmDialog,
                   resumeToDelete, op, locals, kvIssued, kvFailed, fsIssued, fsFailed, flushed>>

\* ------------------------------------------------------------- helpers

\* new Set(resumes.map(r => r.id)): the ids in list order.
IdsOf(rs) == [i \in DOMAIN rs |-> rs[i].id]

IdSet(rs) == {rs[i].id : i \in DOMAIN rs}

\* The members of a selection.
Range(seq) == {seq[i] : i \in DOMAIN seq}

\* Set.prototype.has
Has(sel, id) == \E i \in DOMAIN sel : sel[i] = id

\* Set.prototype.delete: the other members keep their order.
SetDelete(sel, id) == SelectSeq(sel, LAMBDA x : x # id)

\* Set.prototype.add: a new member goes last.
SetAdd(sel, id) == IF Has(sel, id) THEN sel ELSE Append(sel, id)

\* resumes.find(r => r.id === resumeId): the first match, or undefined.
Find(rs, id) ==
    IF \E i \in DOMAIN rs : rs[i].id = id
    THEN rs[CHOOSE i \in DOMAIN rs :
                rs[i].id = id /\ \A j \in 1..(i - 1) : rs[j].id # id]
    ELSE NullItem

\* The fs.delete calls the two `if (resume.imagePath)`, `if (resume.resumePath)`
\* guards let through for one record.
PathsOf(r) == {r.imagePath, r.resumePath} \ {NoPath}

PathsOfAll(rs) == UNION {PathsOf(rs[i]) : i \in DOMAIN rs}

\* kv.delete(`resume:${resumeId}`) on the store.
KvDelete(store, id) == SelectSeq(store, LAMBDA e : e.key # id)

\* The list section (cards, Select All, Delete Selected, Wipe All Data) is
\* rendered.
ListRendered == MainViewRendered /\ ~loadingResumes /\ Len(resumes) > 0

\* The record of a finished run is kept until the next event and is dropped by
\* it; an event during a run leaves the run alone.
RunForgotten ==
    /\ pc' = "idle"
    /\ op' = "none"
    /\ capResumes' = <<>>
    /\ capSelected' = <<>>
    /\ queue' = <<>>
    /\ resume' = NullItem
    /\ fileDeletePromises' = {}
    /\ kvIssued' = {}
    /\ kvFailed' = {}
    /\ fsIssued' = {}
    /\ fsFailed' = {}
    /\ listResult' = "none"
    /\ flushed' = FALSE

KeepRun ==
    IF pc = "done" THEN RunForgotten ELSE UNCHANGED <<pc, op, locals, log>>

\* --------------------------------------------------------------- selection

\* Mutant: the toggle only ever adds.
ToggledAddOnly(sel, resumeId) == SetAdd(sel, resumeId)

\* The new set handleSelectResume builds.
Toggled(sel, resumeId) ==
    IF Has(sel, resumeId) THEN SetDelete(sel, resumeId) ELSE SetAdd(sel, resumeId)

\* The select button of a card: it is not disabled while deleting.
HandleSelectResume(resumeId) ==
    /\ ListRendered
    /\ resumeId \in IdSet(resumes)
    /\ selectedResumes' = Toggled(selectedResumes, resumeId)
    /\ KeepRun
    /\ UNCHANGED <<kvStore, resumes, loadingResumes, deleting, showConfirmDialog,
                   showBulkConfirmDialog, resumeToDelete, error>>

\* The Select All / Deselect All button: it is not disabled while deleting.
HandleSelectAll ==
    /\ ListRendered
    /\ selectedResumes' =
           IF Len(selectedResumes) = Len(resumes) THEN <<>> ELSE IdsOf(resumes)
    /\ KeepRun
    /\ UNCHANGED <<kvStore, resumes, loadingResumes, deleting, showConfirmDialog,
                   showBulkConfirmDialog, resumeToDelete, error>>

\* ----------------------------------------------------------------- dialogs

\* The Delete Selected button.
OpenBulkDialog ==
    /\ ListRendered
    /\ Len(selectedResumes) > 0
    /\ ~deleting
    /\ showBulkConfirmDialog' = TRUE
    /\ KeepRun
    /\ UNCHANGED <<kvStore, resumes, selectedResumes, loadingResumes, deleting,
                   showConfirmDialog, resumeToDelete, error>>

\* The Wipe All Data button.
WipeAllButton ==
    /\ ListRendered
    /\ ~(deleting \/ Len(resumes) = 0)
    /\ selectedResumes' = IdsOf(resumes)
    /\ showBulkConfirmDialog' = TRUE
    /\ KeepRun
    /\ UNCHANGED <<kvStore, resumes, loadingResumes, deleting,
                   showConfirmDialog, resumeToDelete, error>>

\* The delete button of a card (onDelete).
OpenSingleDialog(resumeId) ==
    /\ ListRendered
    /\ resumeId \in IdSet(resumes)
    /\ ~deleting
    /\ resumeToDelete' = resumeId
    /\ showConfirmDialog' = TRUE
    /\ KeepRun
    /\ UNCHANGED <<kvStore, resumes, selectedResumes, loadingResumes, deleting,
                   showBulkConfirmDialog, error>>

\* Cancel of the single delete dialog.
CancelSingleDialog ==
    /\ MainViewRendered
    /\ showConfirmDialog /\ resumeToDelete # Null
    /\ ~deleting
    /\ showConfirmDialog' = FALSE
    /\ resumeToDelete' = Null
    /\ KeepRun
    /\ UNCHANGED <<kvStore, resumes, selectedResumes, loadingResumes, deleting,
                   showBulkConfirmDialog, error>>

\* Cancel of the bulk dialog.
CancelBulkDialog ==
    /\ MainViewRendered
    /\ showBulkConfirmDialog
    /\ ~deleting
    /\ showBulkConfirmDialog' = FALSE
    /\ KeepRun
    /\ UNCHANGED <<kvStore, resumes, selectedResumes, loadingResumes, deleting,
                   showConfirmDialog, resumeToDelete, error>>

\* The Try Again button of the error view: clearError.
ClearError ==
    /\ error # NoError
    /\ error' = NoError
    /\ KeepRun
    /\ UNCHANGED <<kvStore, resumes, selectedResumes, loadingResumes, deleting,
                   showConfirmDialog, showBulkConfirmDialog, resumeToDelete>>

\* ------------------------------------------------- the handlers' commits

\* The end of handleDeleteSingle's try block and its finally: the functional
\* updates act on the state of the moment.
CommitSingle(resumeId) ==
    /\ resumes' = SelectSeq(resumes, LAMBDA r : r.id # resumeId)
    /\ selectedResumes' = SetDelete(selectedResumes, resumeId)
    /\ showConfirmDialog' = FALSE
    /\ resumeToDelete' = Null
    /\ deleting' = FALSE
    /\ pc' = "done"
    /\ fileDeletePromises' = {}
    /\ UNCHANGED <<loadingResumes, showBulkConfirmDialog, queue, resume, kvIssued, error>>

\* Mutant: the commit of handleDeleteSelected filters the list by the
\* selection of the moment instead of the one the loop ran over.
CommitSelectedByCurrentSelection(cs, cur, issued) ==
    /\ resumes' = SelectSeq(resumes, LAMBDA r : ~Has(selectedResumes, r.id))
    /\ selectedResumes' = <<>>
    /\ showBulkConfirmDialog' = FALSE
    /\ deleting' = FALSE
    /\ pc' = "done"
    /\ queue' = <<>>
    /\ resume' = cur
    /\ kvIssued' = issued
    /\ fileDeletePromises' = {}
    /\ UNCHANGED <<loadingResumes, showConfirmDialog, resumeToDelete, error>>

\* The end of handleDeleteSelected's try block and its finally: the filter
\* reads the closure's selectedResumes.
CommitSelected(cs, cur, issued) ==
    /\ resumes' = SelectSeq(resumes, LAMBDA r : ~Has(cs, r.id))
    /\ selectedResumes' = <<>>
    /\ showBulkConfirmDialog' = FALSE
    /\ deleting' = FALSE
    /\ pc' = "done"
    /\ queue' = <<>>
    /\ resume' = cur
    /\ kvIssued' = issued
    /\ fileDeletePromises' = {}
    /\ UNCHANGED <<loadingResumes, showConfirmDialog, resumeToDelete, error>>

\* Mutant: the commit of handleDeleteAll forgets setSelectedResumes(new Set()).
CommitAllKeepsSelection ==
    /\ resumes' = <<>>
    /\ showBulkConfirmDialog' = FALSE
    /\ deleting' = FALSE
    /\ pc' = "done"
    /\ fileDeletePromises' = {}
    /\ UNCHANGED <<selectedResumes, loadingResumes, showConfirmDialog,
                   resumeToDelete, queue, resume, kvIssued, error>>

\* The end of handleDeleteAll's try block and its finally.
CommitAll ==
    /\ resumes' = <<>>
    /\ selectedResumes' = <<>>
    /\ showBulkConfirmDialog' = FALSE
    /\ deleting' = FALSE
    /\ pc' = "done"
    /\ fileDeletePromises' = {}
    /\ UNCHANGED <<loadingResumes, showConfirmDialog, resumeToDelete, queue,
                   resume, kvIssued, error>>

\* `if (!resume) continue`: the ids left from the first one the closure's
\* list holds.
RECURSIVE SkipMissing(_, _)
SkipMissing(q, cr) ==
    IF q = <<>> THEN <<>>
    ELSE IF Find(cr, Head(q)) # NullItem THEN q
    ELSE SkipMissing(Tail(q), cr)

\* Mutant: the loop body runs for every id at once (forEach with an async
\* callback): the kv.delete of every record left is issued together.
SelectedLoopOverlapping(q, cr, cs, cur, issued) ==
    LET rest == SkipMissing(q, cr) IN
    IF rest = <<>>
    THEN CommitSelected(cs, cur, issued)
    ELSE /\ deleting' = TRUE
         /\ pc' = "kvDelete"
         /\ queue' = rest
         /\ resume' = Find(cr, Head(rest))
         /\ kvIssued' = issued \cup (Range(rest) \cap IdSet(cr))
         /\ fileDeletePromises' = {}
         /\ UNCHANGED <<resumes, selectedResumes, loadingResumes,
                        showConfirmDialog, showBulkConfirmDialog, resumeToDelete, error>>

\* The for-of loop of handleDeleteSelected from the ids q on, up to its next
\* await of kv.delete, or through the commit when no id is left.
SelectedLoop(q, cr, cs, cur, issued) ==
    LET rest == SkipMissing(q, cr) IN
    IF rest = <<>>
    THEN CommitSelected(cs, cur, issued)
    ELSE /\ deleting' = TRUE
         /\ pc' = "kvDelete"
         /\ queue' = rest
         /\ resume' = Find(cr, Head(rest))
         /\ kvIssued' = issued \cup {Head(rest)}
         /\ fileDeletePromises' = {}
         /\ UNCHANGED <<resumes, selectedResumes, loadingResumes,
                        showConfirmDialog, showBulkConfirmDialog, resumeToDelete, error>>

\* Mutant: the loop of handleDeleteSelected goes on over the selection of the
\* moment (a Set mutated in place) instead of the one it started with.
AfterFilesLiveSelection ==
    CASE op = "single" -> CommitSingle(resume.id)
      [] op = "batch"  -> SelectedLoop(SelectSeq(selectedResumes,
                                                 LAMBDA id : id \notin kvIssued),
                                       capResumes, capSelected, resume, kvIssued)
      [] op = "all"    -> CommitAll

\* What follows `await Promise.allSettled(fileDeletePromises)`.
AfterFiles ==
    CASE op = "single" -> CommitSingle(resume.id)
      [] op = "batch"  -> SelectedLoop(Tail(queue), capResumes, capSelected,
                                       resume, kvIssued)
      [] op = "all"    -> CommitAll

\* The fs.delete calls pushed to fileDeletePromises, then the await of
\* Promise.allSettled: of no promise, it resolves at once.
DeleteFiles(paths) ==
    /\ fsIssued' = fsIssued \cup paths
    /\ IF paths = {}
       THEN AfterFiles
       ELSE /\ fileDeletePromises' = paths
            /\ pc' = "blobs"
            /\ UNCHANGED <<ui, queue, resume, kvIssued>>

\* Mutant: the catch block only logs (as in the second definition of the
\* component); the finally block follows at once.
CatchWithoutReload ==
    /\ deleting' = FALSE
    /\ pc' = "done"
    /\ fileDeletePromises' = {}
    /\ UNCHANGED <<resumes, selectedResumes, loadingResumes, showConfirmDialog,
                   showBulkConfirmDialog, resumeToDelete, queue, resume, kvIssued, error>>

\* The catch block of a delete handler: `await loadResumes()`.
CatchReload ==
    /\ LoadResumesStart
    /\ fileDeletePromises' = {}
    /\ UNCHANGED <<resumes, selectedResumes, deleting, showConfirmDialog,
                   showBulkConfirmDialog, resumeToDelete, queue, resume, kvIssued, error>>

\* ------------------------------------------------------ handleDeleteSingle

\* Mutant: handleDeleteSingle without its `if (!resume)` return: kv.delete is
\* called for whatever id it was given.
HandleDeleteSingleUnchecked(resumeId) ==
    /\ op' = "single"
    /\ capResumes' = resumes
    /\ capSelected' = selectedResumes
    /\ queue' = <<>>
    /\ resume' = Find(resumes, resumeId)
    /\ fileDeletePromises' = {}
    /\ kvFailed' = {}
    /\ fsIssued' = {}
    /\ fsFailed' = {}
    /\ listResult' = "none"
    /\ flushed' = FALSE
    /\ deleting' = TRUE
    /\ pc' = "kvDelete"
    /\ kvIssued' = {resumeId}
    /\ UNCHANGED <<kvStore, resumes, selectedResumes, loadingResumes,
                   showConfirmDialog, showBulkConfirmDialog, resumeToDelete, error>>

\* handleDeleteSingle up to its await of kv.delete; all of it when the id is
\* not in the list.
HandleDeleteSingle(resumeId) ==
    LET found == Find(resumes, resumeId) IN
    /\ op' = "single"
    /\ capResumes' = resumes
    /\ capSelected' = selectedResumes
    /\ queue' = <<>>
    /\ resume' = found
    /\ fileDeletePromises' = {}
    /\ kvFailed' = {}
    /\ fsIssued' = {}
    /\ fsFailed' = {}
    /\ listResult' = "none"
    /\ flushed' = FALSE
    /\ IF found = NullItem
       THEN /\ deleting' = FALSE
            /\ pc' = "done"
            /\ kvIssued' = {}
       ELSE /\ deleting' = TRUE
            /\ pc' = "kvDelete"
            /\ kvIssued' = {resumeId}
    /\ UNCHANGED <<kvStore, resumes, selectedResumes, loadingResumes,
                   showConfirmDialog, showBulkConfirmDialog, resumeToDelete, error>>

\* Mutant: the confirm buttons carry no disabled attribute.
ConfirmNeverDisabled == FALSE

\* disabled={deleting} on the confirm button of either dialog.
ConfirmDisabled == deleting

\* The Delete button of the single delete dialog.
ConfirmSingle ==
    /\ MainViewRendered
    /\ showConfirmDialog /\ resumeToDelete # Null
    /\ ~ConfirmDisabled
    /\ HandleDeleteSingle(resumeToDelete)

\* ---------------------------------------------------- handleDeleteSelected

\* handleDeleteSelected up to its first await of kv.delete; all of it when
\* the loop finds no record.
HandleDeleteSelected ==
    /\ op' = "batch"
    /\ capResumes' = resumes
    /\ capSelected' = selectedResumes
    /\ kvFailed' = {}
    /\ fsIssued' = {}
    /\ fsFailed' = {}
    /\ listResult' = "none"
    /\ flushed' = FALSE
    /\ SelectedLoop(selectedResumes, resumes, selectedResumes, NullItem, {})
    /\ UNCHANGED kvStore

\* --------------------------------------------------------- handleDeleteAll

\* handleDeleteAll up to its await of kv.flush.
HandleDeleteAll ==
    /\ op' = "all"
    /\ capResumes' = resumes
    /\ capSelected' = selectedResumes
    /\ queue' = <<>>
    /\ resume' = NullItem
    /\ fileDeletePromises' = {}
    /\ kvIssued' = {}
    /\ kvFailed' = {}
    /\ fsIssued' = {}
    /\ fsFailed' = {}
    /\ listResult' = "none"
    /\ flushed' = FALSE
    /\ deleting' = TRUE
    /\ pc' = "kvFlush"
    /\ UNCHANGED <<kvStore, resumes, selectedResumes, loadingResumes,
                   showConfirmDialog, showBulkConfirmDialog, resumeToDelete, error>>

\* Mutant: the confirm button always runs the per-record loop.
BulkHandlerAlwaysSelected == "batch"

\* onClick={selectedResumes.size === resumes.length ? handleDeleteAll
\*                                                  : handleDeleteSelected}
BulkHandler ==
    IF Len(selectedResumes) = Len(resumes) THEN "all" ELSE "batch"

\* The confirm button of the bulk dialog.
ConfirmBulk ==
    /\ MainViewRendered
    /\ showBulkConfirmDialog
    /\ ~ConfirmDisabled
    /\ \/ BulkHandler = "all" /\ HandleDeleteAll
       \/ BulkHandler = "batch" /\ HandleDeleteSelected

\* ------------------------------------------------------- store call results

\* kv.delete resolved: the entry is gone; the handler goes on to the files.
KvDeleteResolve ==
    /\ pc = "kvDelete"
    /\ kvStore' = KvDelete(kvStore, resume.id)
    /\ DeleteFiles(PathsOf(resume))
    /\ UNCHANGED <<op, capResumes, capSelected, kvFailed, fsFailed, listResult, flushed>>

\* Mutant: the rejection of kv.delete is caught on the spot and the handler
\* goes on to the record's files.
KvDeleteRejectIgnored ==
    /\ pc = "kvDelete"
    /\ kvFailed' = kvFailed \cup {resume.id}
    /\ DeleteFiles(PathsOf(resume))
    /\ UNCHANGED <<kvStore, op, capResumes, capSelected, fsFailed, listResult, flushed>>

\* kv.delete rejected: the await throws into the handler's catch.
KvDeleteReject ==
    /\ pc = "kvDelete"
    /\ kvFailed' = kvFailed \cup {resume.id}
    /\ CatchReload
    /\ UNCHANGED <<kvStore, op, capResumes, capSelected, fsIssued, fsFailed, listResult, flushed>>

\* kv.flush resolved: the store is empty; the handler goes on to the files of
\* every record of its closure's list.
KvFlushResolve ==
    /\ pc = "kvFlush"
    /\ kvStore' = <<>>
    /\ flushed' = TRUE
    /\ DeleteFiles(PathsOfAll(capResumes))
    /\ UNCHANGED <<op, capResumes, capSelected, kvFailed, fsFailed, listResult>>

\* kv.flush rejected.
KvFlushReject ==
    /\ pc = "kvFlush"
    /\ CatchReload
    /\ UNCHANGED <<kvStore, op, capResumes, capSelected, kvFailed, fsIssued, fsFailed, listResult, flushed>>

\* One promise of fileDeletePromises settled; Promise.allSettled returns with
\* the last one.
FileSettled(path) ==
    IF fileDeletePromises = {path}
    THEN AfterFiles
    ELSE /\ fileDeletePromises' = fileDeletePromises \ {path}
         /\ UNCHANGED <<ui, pc, queue, resume, kvIssued>>

\* fs.delete resolved.
FsDeleteResolve(path) ==
    /\ pc = "blobs"
    /\ path \in fileDeletePromises
    /\ FileSettled(path)
    /\ UNCHANGED <<kvStore, op, capResumes, capSelected, kvFailed, fsIssued, fsFailed, listResult, flushed>>

\* Mutant: the fs.delete promises carry no .catch and are awaited with
\* Promise.all.
FsRejectionThrownToHandler == TRUE

\* Whether a rejected fs.delete throws into the handler: each promise has its
\* own .catch(err => console.warn(...)) and the await is Promise.allSettled.
FsRejectionThrows == FALSE

\* fs.delete rejected.
FsDeleteReject(path) ==
    /\ pc = "blobs"
    /\ path \in fileDeletePromises
    /\ fsFailed' = fsFailed \cup {KindOf(path)}
    /\ IF FsRejectionThrows THEN CatchReload ELSE FileSettled(path)
    /\ UNCHANGED <<kvStore, op, capResumes, capSelected, kvFailed, fsIssued, listResult, flushed>>

\* ------------------------------------------------------------ specification

AllPaths == {ImagePathOf(id) : id \in RecordIds} \cup {ResumePathOf(id) : id \in RecordIds}

Next ==
    \/ MountEffect
    \/ KvListResolve
    \/ KvListReject
    \/ \E resumeId \in RecordIds : HandleSelectResume(resumeId)
    \/ HandleSelectAll
    \/ OpenBulkDialog
    \/ WipeAllButton
    \/ \E resumeId \in RecordIds : OpenSingleDialog(resumeId)
    \/ CancelSingleDialog
    \/ CancelBulkDialog
    \/ ClearError
    \/ ConfirmSingle
    \/ ConfirmBulk
    \/ KvDeleteResolve
    \/ KvDeleteReject
    \/ KvFlushResolve
    \/ KvFlushReject
    \/ \E path \in AllPaths : FsDeleteResolve(path)
    \/ \E path \in AllPaths : FsDeleteReject(path)

Spec == Init /\ [][Next]_vars

\* The runs in which the user leaves the selection alone while a deletion is
\* in flight: every other event as in Spec.
NextQuiet ==
    \/ MountEffect
    \/ KvListResolve
    \/ KvListReject
    \/ \E resumeId \in RecordIds : ~deleting /\ HandleSelectResume(resumeId)
    \/ ~deleting /\ HandleSelectAll
    \/ OpenBulkDialog
    \/ WipeAllButton
    \/ \E resumeId \in RecordIds : OpenSingleDialog(resumeId)
    \/ CancelSingleDialog
    \/ CancelBulkDialog
    \/ ClearError
    \/ ConfirmSingle
    \/ ConfirmBulk
    \/ KvDeleteResolve
    \/ KvDeleteReject
    \/ KvFlushResolve
    \/ KvFlushReject
    \/ \E path \in AllPaths : FsDeleteResolve(path)
    \/ \E path \in AllPaths : FsDeleteReject(path)

SpecQuiet == Init /\ [][NextQuiet]_vars

\* A store call that is in flight settles, one way or the other.
StoreCallSettles ==
    \/ KvListResolve
    \/ KvListReject
    \/ KvDeleteResolve
    \/ KvDeleteReject
    \/ KvFlushResolve
    \/ KvFlushReject
    \/ \E path \in AllPaths : FsDeleteResolve(path)
    \/ \E path \in AllPaths : FsDeleteReject(path)

\* The runs of SpecQuiet in which no store call stays in flight for ever. The
\* user's events are under no fairness: the user may stop at any time.
SpecFair == SpecQuiet /\ WF_vars(StoreCallSettles)

\* ------------------------------------- loadResumes on any store contents

\* The store holds at most NumIds entries with distinct keys, in any order,
\* each value of any kind.
InitLoad ==
    /\ \E n \in 0..NumIds :
         \E ids \in [1..n -> RecordIds], k \in [1..n -> ValueKinds] :
            /\ \A i, j \in 1..n : ids[i] = ids[j] => i = j
            /\ kvStore = [i \in 1..n |-> KVItem(ids[i], k[i])]
    /\ InitComponent

NextLoad ==
    \/ MountEffect
    \/ KvListResolve
    \/ KvListReject
    \/ ClearError

SpecLoad == InitLoad /\ [][NextLoad]_vars

\* ------------------------------- the second definition of WipeApp (532-961)

\* The file holds a second definition of the component, with the same state.
\* Its loadResumes has no guard against an empty or malformed value and its
\* catch leaves the list alone; its handlers await the two fs.delete calls one
\* after the other inside one try. Its single delete is modelled here; pc is
\* "fsImage" and "fsResume" while it awaits fs.delete(resume.imagePath) and
\* fs.delete(resume.resumePath).

\* resumeKVItems?.map(item => JSON.parse(item.value) ...) throws on the first
\* value that does not parse.
SecondParseThrows(items) == \E i \in DOMAIN items : ~JsonParses(items[i].value)

SecondParsedResumes(items) == [i \in DOMAIN items |-> ResumeItem(items[i].value)]

\* What follows `await loadResumes()` in the second handleDeleteSingle, and
\* its finally block; nothing after the load of the mount effect.
SecondAfterReload ==
    IF op = "load"
    THEN UNCHANGED <<deleting, showConfirmDialog, resumeToDelete>>
    ELSE /\ showConfirmDialog' = FALSE
         /\ resumeToDelete' = Null
         /\ deleting' = FALSE

\* kv.list resolved in the second loadResumes.
SecondKvListResolve ==
    /\ pc = "kvList"
    /\ resumes' = IF SecondParseThrows(kvStore) THEN resumes
                  ELSE SecondParsedResumes(kvStore)
    /\ loadingResumes' = FALSE
    /\ SecondAfterReload
    /\ pc' = "done"
    /\ listResult' = "resolved"
    /\ UNCHANGED <<kvStore, selectedResumes, showBulkConfirmDialog, error, op,
                   locals, kvIssued, kvFailed, fsIssued, fsFailed, flushed>>

\* kv.list rejected in the second loadResumes: its catch only logs.
SecondKvListReject ==
    /\ pc = "kvList"
    /\ loadingResumes' = FALSE
    /\ SecondAfterReload
    /\ pc' = "done"
    /\ listResult' = "rejected"
    /\ error' = ListFailureError
    /\ UNCHANGED <<kvStore, resumes, selectedResumes, showBulkConfirmDialog, op,
                   locals, kvIssued, kvFailed, fsIssued, fsFailed, flushed>>

\* The second handleDeleteSingle up to its await of kv.del; all of it when
\* the id is not in the list.
SecondHandleDeleteSingle(resumeId) ==
    LET found == Find(resumes, resumeId) IN
    /\ op' = "single"
    /\ capResumes' = resumes
    /\ capSelected' = selectedResumes
    /\ queue' = <<>>
    /\ resume' = found
    /\ fileDeletePromises' = {}
    /\ kvFailed' = {}
    /\ fsIssued' = {}
    /\ fsFailed' = {}
    /\ listResult' = "none"
    /\ flushed' = FALSE
    /\ IF found = NullItem
       THEN /\ deleting' = FALSE
            /\ pc' = "done"
            /\ kvIssued' = {}
       ELSE /\ deleting' = TRUE
            /\ pc' = "kvDelete"
            /\ kvIssued' = {resumeId}
    /\ UNCHANGED <<kvStore, resumes, selectedResumes, loadingResumes,
                   showConfirmDialog, showBulkConfirmDialog, resumeToDelete, error>>

\* The Delete button of the second single delete dialog.
SecondConfirmSingle ==
    /\ MainViewRendered
    /\ showConfirmDialog /\ resumeToDelete # Null
    /\ ~ConfirmDisabled
    /\ SecondHandleDeleteSingle(resumeToDelete)

\* kv.del resolved: the handler calls fs.delete(resume.imagePath), whatever
\* the path is.
SecondKvDelResolve ==
    /\ pc = "kvDelete"
    /\ kvStore' = KvDelete(kvStore, resume.id)
    /\ fsIssued' = fsIssued \cup {resume.imagePath}
    /\ pc' = "fsImage"
    /\ UNCHANGED <<ui, op, locals, kvIssued, kvFailed, fsFailed, listResult, flushed>>

\* kv.del rejected: the outer catch logs, the finally block ends the run.
SecondKvDelReject ==
    /\ pc = "kvDelete"
    /\ kvFailed' = kvFailed \cup {resume.id}
    /\ deleting' = FALSE
    /\ pc' = "done"
    /\ UNCHANGED <<kvStore, resumes, selectedResumes, loadingResumes,
                   showConfirmDialog, showBulkConfirmDialog, resumeToDelete, error,
                   op, locals, kvIssued, fsIssued, fsFailed, listResult, flushed>>

\* fs.delete(resume.imagePath) resolved: fs.delete(resume.resumePath) is
\* called.
SecondFsImageResolve ==
    /\ pc = "fsImage"
    /\ fsIssued' = fsIssued \cup {resume.resumePath}
    /\ pc' = "fsResume"
    /\ UNCHANGED <<kvStore, ui, op, locals, kvIssued, kvFailed, fsFailed, listResult, flushed>>

\* fs.delete(resume.imagePath) rejected: the inner catch warns, and the
\* handler goes on to `await loadResumes()`.
SecondFsImageReject ==
    /\ pc = "fsImage"
    /\ fsFailed' = fsFailed \cup {"image"}
    /\ LoadResumesStart
    /\ UNCHANGED <<kvStore, resumes, selectedResumes, deleting, showConfirmDialog,
                   showBulkConfirmDialog, resumeToDelete, error, op, locals,
                   kvIssued, kvFailed, fsIssued, listResult, flushed>>

\* fs.delete(resume.resumePath) resolved.
SecondFsResumeResolve ==
    /\ pc = "fsResume"
    /\ LoadResumesStart
    /\ UNCHANGED <<kvStore, resumes, selectedResumes, deleting, showConfirmDialog,
                   showBulkConfirmDialog, resumeToDelete, error, op, locals, log>>

\* fs.delete(resume.resumePath) rejected.
SecondFsResumeReject ==
    /\ pc = "fsResume"
    /\ fsFailed' = fsFailed \cup {"resume"}
    /\ LoadResumesStart
    /\ UNCHANGED <<kvStore, resumes, selectedResumes, deleting, showConfirmDialog,
                   showBulkConfirmDialog, resumeToDelete, error, op, locals,
                   kvIssued, kvFailed, fsIssued, listResult, flushed>>

NextSecond ==
    \/ MountEffect
    \/ SecondKvListResolve
    \/ SecondKvListReject
    \/ \E resumeId \in RecordIds : HandleSelectResume(resumeId)
    \/ HandleSelectAll
    \/ \E resumeId \in RecordIds : OpenSingleDialog(resumeId)
    \/ CancelSingleDialog
    \/ ClearError
    \/ SecondConfirmSingle
    \/ SecondKvDelResolve
    \/ SecondKvDelReject
    \/ SecondFsImageResolve
    \/ SecondFsImageReject
    \/ SecondFsResumeResolve
    \/ SecondFsResumeReject

SpecSecond == Init /\ [][NextSecond]_vars

\* ------------------------------------------------------------------ claims

\* The keys the store holds.
StoreKeys == {kvStore[i].key : i \in DOMAIN kvStore}

\* The records a batch run is over: selected and loaded when it was triggered.
RunIds == Range(capSelected) \cap IdSet(capResumes)

\* seq without its k-th element.
WithoutAt(seq, k) == SubSeq(seq, 1, k - 1) \o SubSeq(seq, k + 1, Len(seq))

\* A deletion run has ended and no event has followed it.
RunEnded(o) == pc = "done" /\ op = o

\* C1: a batch delete in which exactly one record's kv.delete failed ends (its
\* reload having succeeded) with every other record of the run absent from the
\* loaded list and from the selection, and the failed record still loaded and
\* still selected.
C1_BatchOneFailureKeepsOnlyFailed ==
    (RunEnded("batch") /\ Cardinality(kvFailed) = 1 /\ listResult = "resolved") =>
        \A id \in RunIds :
            IF id \in kvFailed
            THEN id \in IdSet(resumes) /\ Has(selectedResumes, id)
            ELSE id \notin IdSet(resumes) /\ ~Has(selectedResumes, id)

\* C2: a batch delete attempts the kv.delete of every selected record that is
\* in the loaded list, whatever the outcome of the removals before it.
C2_EverySelectedRecordAttempted ==
    RunEnded("batch") => RunIds \subseteq kvIssued

\* C3: a single delete whose kv.delete failed ends with the record in the
\* loaded list, the list as before the run, and the selection unchanged.
C3_SingleFailureLeavesState ==
    (RunEnded("single") /\ kvFailed # {}) =>
        /\ resume.id \in IdSet(resumes)
        /\ resumes = capResumes
        /\ selectedResumes = capSelected

\* The commit step of a single delete: from the await of kv.delete or of the
\* file deletions to the end of the run.
SingleCommitStep ==
    /\ op = "single"
    /\ pc \in {"kvDelete", "blobs"}
    /\ pc' = "done"

\* The step takes the record resume.id out of the list and out of the
\* selection and leaves every other record and member in place.
OnlyRecordRemoved ==
    /\ \E k \in DOMAIN resumes :
          /\ resumes[k].id = resume.id
          /\ resumes' = WithoutAt(resumes, k)
    /\ IF Has(selectedResumes, resume.id)
       THEN \E k \in DOMAIN selectedResumes :
               /\ selectedResumes[k] = resume.id
               /\ selectedResumes' = WithoutAt(selectedResumes, k)
       ELSE selectedResumes' = selectedResumes

\* A single delete whose kv.delete did not fail never enters the reload, and
\* has, once over, the record neither in the list nor in the selection.
SingleSuccessEndsRemoved ==
    (op = "single" /\ kvIssued # {} /\ kvFailed = {} /\ pc \in {"kvList", "done"}) =>
        /\ pc = "done"
        /\ listResult = "none"
        /\ resume.id \notin IdSet(resumes)
        /\ ~Has(selectedResumes, resume.id)

\* C4: once the kv.delete of a single delete has succeeded, the record is
\* removed from the loaded list and from the selection whatever the outcomes
\* of its two file deletions, and every other record and every other selected
\* id is left as it was.
C4_SingleSuccessRemovesRecordOnly ==
    /\ []SingleSuccessEndsRemoved
    /\ [][SingleCommitStep => OnlyRecordRemoved]_vars

\* C4 witness: a single delete of a selected record has ended, its kv.delete
\* succeeded, both file deletions failed, and another record is still loaded
\* and selected.
C4_Witness ==
    /\ RunEnded("single")
    /\ kvIssued # {} /\ kvFailed = {}
    /\ fsFailed = {"image", "resume"}
    /\ Has(capSelected, resume.id)
    /\ Len(resumes) = Len(capResumes) - 1
    /\ Len(selectedResumes) >= 1

\* C5: a Delete-All whose kv.flush succeeded ends with an empty loaded list
\* and an empty selection, whatever the outcomes of the file deletions.
C5_DeleteAllEmptiesListAndSelection ==
    (RunEnded("all") /\ flushed) =>
        /\ resumes = <<>>
        /\ selectedResumes = <<>>
        /\ listResult = "none"

\* C5 witness: a Delete-All over NumIds records has ended, the flush succeeded
\* and an image deletion failed.
C5_Witness ==
    /\ RunEnded("all")
    /\ flushed
    /\ Len(capResumes) = NumIds
    /\ "image" \in fsFailed
    /\ resumes = <<>>

\* C6: a Delete-All whose kv.flush failed changes no local state: the loaded
\* list and the selection are those from before the run, and no file deletion
\* was issued.
C6_FlushFailureLeavesState ==
    (RunEnded("all") /\ ~flushed) =>
        /\ resumes = capResumes
        /\ selectedResumes = capSelected
        /\ fsIssued = {}

\* C7: when every loaded record (at least one) is selected and the bulk dialog
\* is confirmed, the bulk-clear handler runs (one kv.flush) and no per-key
\* kv.delete is issued.
C7_AllSelectedRunsBulkClear ==
    (/\ op \in {"batch", "all"}
     /\ Len(capResumes) >= 1
     /\ IdSet(capResumes) \subseteq Range(capSelected)) =>
        /\ op = "all"
        /\ kvIssued = {}

\* C8: the selection is a subset of the ids of the loaded list.
C8_SelectionWithinLoaded ==
    Range(selectedResumes) \subseteq IdSet(resumes)

\* C9: at the end of a deletion run, a record that was loaded when the run
\* started is absent from the loaded list exactly when its key-value entry is
\* gone from the store.
C9_AbsentIffEntryGone ==
    (pc = "done" /\ op \in {"single", "batch", "all"}) =>
        \A id \in IdSet(capResumes) :
            (id \notin IdSet(resumes)) <=> (id \notin StoreKeys)

\* A value that is non-empty and parses as a record.
ValueIsRecord(v) == v.text \notin {"empty", "blank", "malformed"}

\* The places of the store's well-formed entries.
GoodPlaces == {i \in DOMAIN kvStore : ValueIsRecord(kvStore[i].value)}

\* C10: whatever entries kv.list returned, loadResumes ends (loadingResumes
\* false again) with the loaded list holding exactly the well-formed entries,
\* in the order of the store: the j-th record is the j-th well-formed entry.
C10_LoadKeepsWellFormedInOrder ==
    (pc = "done" /\ op = "load" /\ listResult = "resolved") =>
        /\ ~loadingResumes
        /\ Len(resumes) = Cardinality(GoodPlaces)
        /\ \A i \in GoodPlaces :
              LET j == Cardinality({k \in GoodPlaces : k <= i})
              IN  /\ resumes[j].id = kvStore[i].value.id
                  /\ resumes[j].imagePath = kvStore[i].value.imagePath
                  /\ resumes[j].resumePath = kvStore[i].value.resumePath

\* C10 witness: a load has ended over a store of three entries, one of them
\* malformed or empty, and the two records are listed in store order with the
\* larger id first.
C10_Witness ==
    /\ pc = "done" /\ op = "load" /\ listResult = "resolved"
    /\ Len(kvStore) = 3
    /\ Cardinality(GoodPlaces) = 2
    /\ Len(resumes) = 2
    /\ resumes[1].id > resumes[2].id

RunInFlight ==
    \/ pc \in {"kvDelete", "blobs", "kvFlush"}
    \/ pc = "kvList" /\ op # "load"

\* C12: from the start of a deletion run to its terminal state the in-flight
\* flag is set and neither confirm button (the two controls that start a
\* deletion handler) can be used, so no second run starts while one is in
\* flight; and no run is in flight while the flag is not set.
C12_NoSecondRunWhileInFlight ==
    /\ RunInFlight => /\ deleting
                      /\ ~ENABLED ConfirmSingle
                      /\ ~ENABLED ConfirmBulk
    /\ ~deleting => ~RunInFlight

\* C12 witness: a run is waiting for file deletions while both dialogs are
\* open, each with its confirm button rendered and disabled.
C12_Witness ==
    /\ pc = "blobs"
    /\ deleting
    /\ MainViewRendered
    /\ showBulkConfirmDialog
    /\ showConfirmDialog /\ resumeToDelete # Null

\* The ids of the records the paths belong to.
IdsOfPaths(paths) == {path[1] : path \in paths}

\* C13: a batch delete in which no kv.delete failed ends with the loaded list
\* equal to the list of before the run without the selected records, in the
\* same order, and with an empty selection; kv.delete and fs.delete were
\* issued for selected records only, and every record that was not selected
\* still has its entry in the store.
C13_BatchSuccessRemovesSelectedOnly ==
    (RunEnded("batch") /\ kvFailed = {}) =>
        /\ resumes = SelectSeq(capResumes, LAMBDA r : ~Has(capSelected, r.id))
        /\ selectedResumes = <<>>
        /\ listResult = "none"
        /\ kvIssued = RunIds
        /\ IdsOfPaths(fsIssued) \subseteq RunIds
        /\ \A id \in IdSet(capResumes) \ Range(capSelected) : id \in StoreKeys

\* C13 witness: the batch over the first and the third of three loaded
\* records has ended without a kv.delete failure, a file deletion failed, and
\* the second record alone is listed.
C13_Witness ==
    /\ RunEnded("batch")
    /\ kvFailed = {}
    /\ IdsOf(capResumes) = <<1, 2, 3>>
    /\ capSelected = <<3, 1>>
    /\ fsFailed # {}
    /\ IdsOf(resumes) = <<2>>
    /\ 2 \in StoreKeys

\* The kv.delete of record id succeeded and the handler has left the file
\* deletions of that record behind.
RecordDeletionOver(id) ==
    /\ id \in kvIssued \ kvFailed
    /\ ~(resume.id = id /\ pc \in {"kvDelete", "fsImage", "fsResume"})

\* C14: for every record whose kv.delete succeeded, once the handler has
\* moved past that record's file deletions, an fs.delete was issued for its
\* image path and one for its resume path, whatever became of the other.
C14_BothFilesAttempted ==
    (op \in {"single", "batch"}) =>
        \A id \in IdSet(capResumes) :
            RecordDeletionOver(id) => PathsOf(Find(capResumes, id)) \subseteq fsIssued

\* C15: a single delete called with an id the loaded list does not hold
\* returns at once: it issues no kv.delete, no fs.delete and no reload, leaves
\* the loaded list and the selection as they were, and deleting is false
\* when it returns.
C15_SingleNotFoundIsNoOp ==
    (op = "single" /\ resume = NullItem) =>
        /\ pc = "done"
        /\ kvIssued = {}
        /\ fsIssued = {}
        /\ listResult = "none"
        /\ resumes = capResumes
        /\ selectedResumes = capSelected
        /\ ~deleting

\* C15 witness: the single dialog was confirmed for a record a batch delete
\* had removed meanwhile; the list and the selection are not empty.
C15_Witness ==
    /\ RunEnded("single")
    /\ resume = NullItem
    /\ resumeToDelete # Null
    /\ resumeToDelete \notin IdSet(resumes)
    /\ Len(resumes) >= 1
    /\ Len(selectedResumes) >= 1

\* The ids whose key-value entry the run that has ended removed.
DeletedByRun ==
    IF op = "all"
    THEN IF flushed THEN IdSet(capResumes) ELSE {}
    ELSE kvIssued \ kvFailed

\* C16: at the end of a deletion run, no record whose entry the run removed
\* is in the loaded list, in the selection, or the pending single-delete
\* target.
C16_DeletedRecordNotReferenced ==
    (pc = "done" /\ op \in {"single", "batch", "all"}) =>
        \A id \in DeletedByRun :
            /\ id \notin IdSet(resumes)
            /\ ~Has(selectedResumes, id)
            /\ resumeToDelete # id

\* The kv.delete of record id has been issued and has not settled.
KvDeletePending(id) == pc = "kvDelete" /\ resume.id = id

\* C17: in a single or batch delete an fs.delete is issued only for a record
\* whose kv.delete has resolved (its entry is gone from the store), never for
\* one whose kv.delete is pending or failed; in a delete-all an fs.delete is
\* issued only after kv.flush has resolved.
C17_KvRemovalGatesFileDeletion ==
    /\ (op \in {"single", "batch"}) =>
          \A id \in IdsOfPaths(fsIssued) :
              /\ id \in kvIssued \ kvFailed
              /\ ~KvDeletePending(id)
              /\ id \notin StoreKeys
    /\ (op = "all" /\ fsIssued # {}) => (flushed /\ kvStore = <<>>)
    /\ (op \in {"none", "load"}) => fsIssued = {}

\* C17 witness: a batch delete has ended in which one kv.delete failed after
\* another record's files had been deleted.
C17_Witness ==
    /\ RunEnded("batch")
    /\ kvFailed # {}
    /\ fsIssued # {}
    /\ IdsOfPaths(fsIssued) \cap kvFailed = {}

\* C18: at most two fs.delete calls are in flight at any moment of any
\* deletion workflow.
C18_AtMostTwoFileDeletesInFlight ==
    Cardinality(fileDeletePromises) <= 2

\* The ids whose kv.delete this run has issued and not seen settle: issued,
\* not rejected, and the entry still in the store.
KvDeletesInFlight == {id \in kvIssued \ kvFailed : id \in StoreKeys}

\* C19: a batch delete handles one record at a time: at most one kv.delete is
\* in flight and it is the one of the current record; while it is in flight
\* no fs.delete is; and the fs.delete calls in flight all belong to the
\* current record, whose kv.delete has settled.
C19_BatchOneRecordAtATime ==
    (op = "batch") =>
        /\ Cardinality(KvDeletesInFlight) <= 1
        /\ \A id \in KvDeletesInFlight : KvDeletePending(id)
        /\ (pc = "kvDelete") => fileDeletePromises = {}
        /\ (fileDeletePromises # {}) =>
              /\ pc = "blobs"
              /\ IdsOfPaths(fileDeletePromises) = {resume.id}
              /\ KvDeletesInFlight = {}

\* C19 witness: the kv.delete of the second record of a batch is in flight;
\* the first record's kv.delete and its two file deletions, one of which
\* failed, have settled.
C19_Witness ==
    /\ op = "batch"
    /\ pc = "kvDelete"
    /\ Cardinality(kvIssued) = 2
    /\ Cardinality(fsIssued) = 2
    /\ fsFailed # {}
    /\ fileDeletePromises = {}
    /\ Cardinality(KvDeletesInFlight) = 1

\* C20: provided every store call settles, every deletion run that is in
\* flight reaches its end, with deleting false again and the confirm buttons
\* no longer disabled, whatever the outcomes of its calls.
C20_EveryRunEnds ==
    RunInFlight ~> (pc = "done" /\ ~deleting /\ ~ConfirmDisabled)

\* C20 witness: a batch delete has ended after a failed file deletion, a
\* failed kv.delete and a failed reload, and deleting is false.
C20_Witness ==
    /\ RunEnded("batch")
    /\ fsFailed # {}
    /\ kvFailed # {}
    /\ listResult = "rejected"
    /\ ~deleting

\* The step flips the membership of resumeId in the selection and of no
\* other id.
FlipsOnly(resumeId) ==
    \A id \in RecordIds :
        Has(selectedResumes', id) <=>
            IF id = resumeId THEN ~Has(selectedResumes, id)
            ELSE Has(selectedResumes, id)

\* The step empties the selection when its size equals the list's length,
\* and otherwise makes it the set of the loaded ids.
SelectsAllOrNone ==
    IF Len(selectedResumes) = Len(resumes)
    THEN selectedResumes' = <<>>
    ELSE /\ Range(selectedResumes') = IdSet(resumes)
         /\ Len(selectedResumes') = Cardinality(IdSet(resumes))

\* C21: every handleSelectAll step empties the selection when its size
\* equals the length of the loaded list and otherwise selects exactly the
\* loaded ids; every handleSelectResume step flips the membership of the
\* given id only; neither changes the loaded list.
C21_TogglesChangeSelectionOnly ==
    [][/\ HandleSelectAll => (SelectsAllOrNone /\ resumes' = resumes)
       /\ \A resumeId \in RecordIds :
             HandleSelectResume(resumeId) =>
                 (FlipsOnly(resumeId) /\ resumes' = resumes)]_vars

\* C21 witness: of three loaded records the third and then the first were
\* toggled on; the list is as loaded.
C21_Witness ==
    /\ IdsOf(resumes) = <<1, 2, 3>>
    /\ selectedResumes = <<3, 1>>
    /\ ~deleting
    /\ ~showBulkConfirmDialog

\* C22: handleDeleteSelected only ever runs with a non-empty selection.
C22_BatchSelectionNonEmpty ==
    (op = "batch") => capSelected # <<>>

\* C23: handleDeleteAll only ever runs when every loaded record is selected.
C23_BulkClearOnlyWhenAllSelected ==
    (op = "all") => IdSet(capResumes) \subseteq Range(capSelected)

\* The key-value call of the run (a kv.delete, or the kv.flush) was rejected.
KvCallFailed ==
    \/ op \in {"single", "batch"} /\ kvFailed # {}
    \/ op = "all" /\ ~flushed /\ pc \in {"kvList", "done"}

\* After the rejection the run is in its one reload, with deleting still
\* set, or over, the reload done and deleting cleared; no store call is in
\* flight other than the reload's kv.list, and the selection is the one of
\* the trigger.
FailedRunOnlyReloads ==
    KvCallFailed =>
        /\ pc \in {"kvList", "done"}
        /\ (pc = "kvList") => (deleting /\ loadingResumes /\ listResult = "none")
        /\ (pc = "done") => (~deleting /\ ~loadingResumes /\ listResult # "none")
        /\ Cardinality(kvFailed) <= 1
        /\ fileDeletePromises = {}
        /\ KvDeletesInFlight = {}
        /\ selectedResumes = capSelected

\* A step of a run in flight that ends in, or stays in, the failed state
\* issues no kv.delete and no fs.delete, and leaves the selection and both
\* dialogs alone.
FailureStepIssuesNothing ==
    (RunInFlight /\ KvCallFailed') =>
        /\ fsIssued' = fsIssued
        /\ kvIssued' = kvIssued
        /\ UNCHANGED <<selectedResumes, showConfirmDialog, showBulkConfirmDialog,
                       resumeToDelete>>

\* C24: when the kv.delete or kv.flush of a deletion run is rejected, the run
\* issues no further kv.delete or fs.delete, reloads the list once and only
\* then clears deleting, and leaves the selection and the dialogs as they
\* were.
C24_KvFailureReloadsOnce ==
    /\ []FailedRunOnlyReloads
    /\ [][FailureStepIssuesNothing]_vars

\* C24 witness: a batch over at least two records has ended after a rejected
\* kv.delete: a record of the run was never attempted, the reload resolved,
\* the bulk dialog is still open and the selection is that of the trigger.
C24_Witness ==
    /\ RunEnded("batch")
    /\ kvFailed # {}
    /\ kvIssued # RunIds
    /\ listResult = "resolved"
    /\ showBulkConfirmDialog
    /\ selectedResumes = capSelected
    /\ ~deleting

\* seq is a suffix of whole.
IsSuffix(seq, whole) ==
    /\ Len(seq) <= Len(whole)
    /\ seq = SubSeq(whole, Len(whole) - Len(seq) + 1, Len(whole))

\* C25: a batch delete runs over the selection of the moment it was
\* triggered: every kv.delete and fs.delete it issues, and so every entry it
\* removes, is of a record that was selected and loaded then; the ids it has
\* yet to handle are a tail of that selection, whatever the selection has
\* become since; and a run without a failure has attempted all of them.
C25_BatchRunsOverTriggerSelection ==
    (op = "batch") =>
        /\ kvIssued \subseteq RunIds
        /\ IdsOfPaths(fsIssued) \subseteq RunIds
        /\ \A id \in IdSet(capResumes) \ RunIds : id \in StoreKeys
        /\ IsSuffix(queue, capSelected)
        /\ (pc = "done" /\ kvFailed = {}) => kvIssued = RunIds

\* C25 witness: the second kv.delete of a batch is in flight for a record the
\* user has deselected meanwhile, and the only record now selected was not
\* selected when the run was triggered.
C25_Witness ==
    /\ op = "batch"
    /\ pc = "kvDelete"
    /\ Cardinality(kvIssued) = 2
    /\ Len(selectedResumes) = 1
    /\ selectedResumes[1] \notin Range(capSelected)
    /\ selectedResumes[1] \in IdSet(resumes)

====
